---- MODULE Spec2Model ----
(***************************************************************************)
(* A model of the dynamic-graph explainer AdaptiveGCE (fit / explain /     *)
(* transform_data, with its checkpoint directory) and of DynamicEvaluator  *)
(* (evaluate over the time-keyed snapshots).                               *)
(*                                                                         *)
(* Four specifications share the variables:                                *)
(*   Spec          the life of one AdaptiveGCE instance: fit and explain   *)
(*   SpecTransform transform_data applied to a dataset and a fold          *)
(*   SpecSparse    the dense -> (edge_index, edge_attr) conversion         *)
(*   SpecEval      DynamicEvaluator.evaluate                               *)
(***************************************************************************)
EXTENDS Integers, Sequences, FiniteSets, TLC

VARIABLES
    \* ---- AdaptiveGCE and the persistence backend
    world,          \* the content of the datasets: labels and train splits (an input)
    fold_id,        \* self.fold_id, given at construction
    fitted,         \* self._fitted
    name,           \* self.name
    dirs,           \* directories that exist under explainer_store_path
    files,          \* checkpoint files that exist
    log,            \* history variable: one record per call of fit / explain
    data_loaders,   \* result of the last transform_data call
    \* ---- sparse conversion
    sp_adj,         \* a dense weighted adjacency matrix
    sp_data,        \* the edge_index / edge_attr pair derived from it ({} before)
    \* ---- DynamicEvaluator
    dyn_graph,      \* self.dyn_graph: insertion-ordered mapping time -> Dataset
    iteration,      \* self._explainer.iteration ({} while the attribute is unset)
    ev_data,        \* self._data (a one-element set)
    ev_log,         \* the inherited evaluate() invocations of the last call
    ev_result       \* how the last evaluate() call ended

vars == <<world, fold_id, fitted, name, dirs, files, log, data_loaders,
          sp_adj, sp_data, dyn_graph, iteration, ev_data, ev_log, ev_result>>

explainerVars == <<world, fold_id, fitted, name, dirs, files, log, data_loaders>>
sparseVars == <<sp_adj, sp_data>>
evalVars == <<dyn_graph, iteration, ev_data, ev_log, ev_result>>

None == "none"      \* a call that has not happened

(***************************************************************************)
(* Bounds of the model.                                                    *)
(***************************************************************************)
MaxNodes == 2       \* nodes of a graph instance
MaxWeight == 1      \* edge weights range over -1 .. MaxWeight
MaxKeys == 4        \* time keys of a dynamic graph
NumInst == 3        \* instances of a dataset
NumFolds == 2       \* cross-validation folds
MaxCalls == 2       \* calls of fit / explain in one behaviour

num_classes == 2    \* AdaptiveGCE.__init__ default
epochs_ae == 100    \* AdaptiveGCE.__init__ default

Weights == -1 .. MaxWeight
Nodes == 1 .. MaxNodes

RECURSIVE SeqOfSet(_)
\* the elements of a finite set of integers, ascending
SeqOfSet(S) ==
    IF S = {} THEN <<>>
    ELSE LET m == CHOOSE x \in S : \A y \in S : x <= y
         IN  <<m>> \o SeqOfSet(S \ {m})

Range(s) == {s[i] : i \in DOMAIN s}

(***************************************************************************)
(* Sparse conversion (transform_data, the body of its loop).               *)
(* A matrix is a sequence of rows; indices in edge_index are 0-based as in *)
(* torch.                                                                  *)
(***************************************************************************)
SquareMatrices(n) == [1 .. n -> [1 .. n -> Weights]]

\* a variant that leaves out the self-loops
nonzero_skip_diagonal(m) ==
    LET n == Len(m)
        all == [k \in 1 .. n * n |-> <<(k - 1) \div n, (k - 1) % n>>]
    IN  SelectSeq(all, LAMBDA p : p[1] # p[2] /\ m[p[1] + 1][p[2] + 1] # 0)

\* torch.nonzero(adj[i]): the m x 2 index tensor of the non-zero entries,
\* in row-major order
nonzero(m) ==
    LET n == Len(m)
        all == [k \in 1 .. n * n |-> <<(k - 1) \div n, (k - 1) % n>>]
    IN  SelectSeq(all, LAMBDA p : m[p[1] + 1][p[2] + 1] # 0)

\* a.T : 2 rows, one column per non-zero entry
transpose(a) == <<[i \in 1 .. Len(a) |-> a[i][1]], [i \in 1 .. Len(a) |-> a[i][2]]>>

\* w[a[:,0], a[:,1]]
gather(w, a) == [i \in 1 .. Len(a) |-> w[a[i][1] + 1][a[i][2] + 1]]

\* lines 141-147: the edge_index / edge_attr pair of one adjacency matrix
to_sparse(adj) ==
    LET a == nonzero(adj)
        w == gather(adj, a)
    IN  [edge_index |-> transpose(a), edge_attr |-> w]

RECURSIVE Scatter(_, _, _, _)
\* write edge_attr[i..] back at edge_index[:, i..] into matrix m
Scatter(m, ei, ea, i) ==
    IF i > Len(ea) THEN m
    ELSE Scatter([m EXCEPT ![ei[1][i] + 1][ei[2][i] + 1] = ea[i]], ei, ea, i + 1)

ToDense(n, sp) ==
    Scatter([r \in 1 .. n |-> [c \in 1 .. n |-> 0]], sp.edge_index, sp.edge_attr, 1)

NonZeroCount(m) ==
    Cardinality({p \in (1 .. Len(m)) \X (1 .. Len(m)) : m[p[1]][p[2]] # 0})

(***************************************************************************)
(* DynamicEvaluator.                                                       *)
(* dyn_graph is a Python dict: a sequence of <<key, value>> pairs in       *)
(* insertion order, keys distinct.                                         *)
(***************************************************************************)
TimeKeys == {i * i + 4 : i \in 1 .. MaxKeys}     \* 5, 8, 13, 20, ...

Snapshot(t) == [snapshot_at |-> t]

\* the DynamicDataset the evaluator is constructed with
DynamicDataset == [snapshot_at |-> -1]

keys(dg) == [i \in 1 .. Len(dg) |-> dg[i][1]]

getitem(dg, t) == dg[CHOOSE i \in 1 .. Len(dg) : dg[i][1] = t][2]

Min(S) == CHOOSE x \in S : \A y \in S : x <= y

\* a loop without the break
visited_all(ks) == ks

\* the keys for which the body of the for loop runs: the loop breaks at the
\* end of its first pass
visited(ks) == IF ks = <<>> THEN <<>> ELSE <<ks[1]>>

\* one pass of the loop body for key `time`, up to the inherited evaluate()
loop_body(dg, begin_time, time) ==
    [iteration |-> time - begin_time, data |-> getitem(dg, time)]

DynGraphs ==
    UNION {{dg \in [1 .. n -> {<<t, Snapshot(t)>> : t \in TimeKeys}] :
                \A i, j \in 1 .. n : i # j => dg[i][1] # dg[j][1]} : n \in 0 .. MaxKeys}

\* evaluate(): the whole call; base_raises says whether the inherited
\* evaluate() raises
Evaluate(base_raises) ==
    /\ IF dyn_graph = <<>>
       THEN \* min() of an empty sequence raises ValueError
            /\ ev_result' = "error"
            /\ ev_log' = <<>>
            /\ UNCHANGED <<iteration, ev_data>>
       ELSE LET ks == keys(dyn_graph)
                begin_time == Min(Range(ks))
                \* an exception of the inherited evaluate() ends the call in its pass
                vs == IF base_raises THEN SubSeq(visited(ks), 1, 1) ELSE visited(ks)
                passes == [i \in 1 .. Len(vs) |-> loop_body(dyn_graph, begin_time, vs[i])]
            IN  /\ ev_log' = passes
                /\ iteration' = {passes[Len(passes)].iteration}
                /\ ev_data' = {passes[Len(passes)].data}
                /\ ev_result' = IF base_raises THEN "error" ELSE "ok"
    /\ UNCHANGED dyn_graph
    /\ UNCHANGED explainerVars
    /\ UNCHANGED sparseVars

EvaluateStep == \E base_raises \in BOOLEAN : Evaluate(base_raises)

(***************************************************************************)
(* Datasets (the collaborator interface consumed by AdaptiveGCE).          *)
(* A dataset has a name, instances indexed from 0, and per fold the list   *)
(* of train indices.                                                       *)
(***************************************************************************)
Indices == 0 .. NumInst - 1
Folds == 0 .. NumFolds - 1
Labels == 0 .. num_classes          \* one label more than the ensemble has units
Names == {"A"}                      \* the names of the datasets

\* the adjacency matrix of instance i: some fixed weighted graph
AdjOf(i) == [r \in Nodes |-> [c \in Nodes |-> IF (r + c + i) % 2 = 0 THEN 1 ELSE 0]]

Instance(i, label) == [graph_label |-> label, adj |-> AdjOf(i), features |-> <<i>>]

\* k-fold cross-validation: fold f tests the indices congruent to f, trains the rest
KFoldTrain(f) == SeqOfSet({i \in Indices : i % NumFolds # f})

\* the dataset called nm: the datasets differ in their names
Dataset(nm, content) ==
    [name |-> nm,
     instances |-> [i \in Indices |-> Instance(i, content.labels[i])],
     train |-> content.train]

\* for a set S of labels, the instances labelled S's labels in turn
LabelsInTurn(S) == [i \in Indices |-> SeqOfSet(S)[(i % Cardinality(S)) + 1]]

\* dataset.get_classes(): the class labels of the dataset, ascending
get_classes(ds) == SeqOfSet({ds.instances[i].graph_label : i \in DOMAIN ds.instances})

\* dataset.get_split_indices()[fold]['train']
get_split_indices(ds, fold) == ds.train[fold]

(***************************************************************************)
(* AdaptiveGCE.transform_data                                              *)
(***************************************************************************)
\* a variant that takes every instance
train_indices_unrestricted(ds, self_fold_id) == SeqOfSet(DOMAIN ds.instances)

\* line 127: the indices the per-class data are restricted to
train_indices(ds, self_fold_id) == get_split_indices(ds, self_fold_id)

\* lines 141-147: the sample built from the i-th selected instance; idx is a
\* ghost field naming the instance the sample was built from
make_sample(ds, idx) ==
    LET inst == ds.instances[idx]
        sp == to_sparse(inst.adj)
    IN  [x |-> inst.features, y |-> inst.graph_label,
         edge_index |-> sp.edge_index, edge_attr |-> sp.edge_attr, idx |-> idx]

\* lines 122-158: one collection per class of get_classes(), in that order
transform_data(ds, self_fold_id) ==
    LET indices == train_indices(ds, self_fold_id)
        samples == [i \in 1 .. Len(indices) |-> make_sample(ds, indices[i])]
        classes == get_classes(ds)
        data_dict_cls == [cls \in Range(classes) |->
                             SelectSeq(samples, LAMBDA d : d.y = cls)]
    IN  [k \in 1 .. Len(classes) |-> data_dict_cls[classes[k]]]

(***************************************************************************)
(* AdaptiveGCE.fit, __fit, save_autoencoder, explain                       *)
(***************************************************************************)
ClassName == "AdaptiveGCE"
explainer_store_path == "store"

\* line 68: the f-string, as the sequence of its parts
explainer_name(ds, fold) == <<ClassName, "_fit_on_", ds.name, "_fold_id_", fold>>

\* os.path.join
path_join(a, b) == <<a, b>>

\* a variant that never finds the directory
os_path_exists_never(uri, existing) == FALSE

\* line 72
os_path_exists(uri, existing) == uri \in existing

\* line 118: the checkpoint file of class index cls
checkpoint_path(self_name, cls) ==
    [dir |-> path_join(explainer_store_path, self_name), file |-> <<"autoencoder_", cls>>]

\* load_explainers(): every unit's weight file must be there
load_explainers(self_name, existing) ==
    \A cls \in 0 .. num_classes - 1 : checkpoint_path(self_name, cls) \in existing

\* What the environment does to a training run: nothing, an exception in the
\* training of class cls (in some epoch of it), or an exception of torch.save
\* for class cls.
NoFault == [kind |-> "none", cls |-> 0]
Faults ==
    {NoFault}
    \cup {[kind |-> "train", cls |-> c] : c \in 0 .. num_classes - 1}
    \cup {[kind |-> "save", cls |-> c] : c \in 0 .. num_classes - 1}

\* the class indices a fault can hit: those the loop reaches
FaultFits(loaders, fault) ==
    fault.kind = "none"
    \/ (fault.cls < Len(loaders) /\ fault.cls < num_classes)

Prefix(n) == [i \in 1 .. n |-> i - 1]

\* the <<class index, label>> pairs of the samples that the class indices
\* below `done` were trained on
TrainedPairs(loaders, done) ==
    {p \in (0 .. done - 1) \X Labels :
        \E i \in 1 .. Len(loaders[p[1] + 1]) : loaders[p[1] + 1][i].y = p[2]}

\* the instances the samples of the loaders were built from
SamplesIdx(loaders) ==
    UNION {{loaders[k][i].idx : i \in 1 .. Len(loaders[k])} : k \in 1 .. Len(loaders)}

\* a training loop in which a failing save is passed over
fit_classes_save_optional(loaders, fault) ==
    LET n == Len(loaders)
        limit == IF n > num_classes THEN num_classes ELSE n
        done == IF fault.kind = "train" THEN fault.cls ELSE limit
        error == IF fault.kind = "train" THEN "training"
                 ELSE IF n > num_classes THEN "IndexError"
                 ELSE "none"
    IN  [started |-> Prefix(IF fault.kind = "train" THEN done + 1 ELSE done),
         passes |-> Prefix(done),
         saved |-> {c \in 0 .. done - 1 : ~(fault.kind = "save" /\ fault.cls = c)},
         epochs |-> done * epochs_ae,
         pairs |-> TrainedPairs(loaders, done),
         error |-> error]

\* a training loop that writes a class's checkpoint before training the class
fit_classes_save_first(loaders, fault) ==
    LET n == Len(loaders)
        limit == IF n > num_classes THEN num_classes ELSE n
        done == IF fault.kind \in {"train", "save"} THEN fault.cls ELSE limit
        error == IF fault.kind = "train" THEN "training"
                 ELSE IF fault.kind = "save" THEN "save"
                 ELSE IF n > num_classes THEN "IndexError"
                 ELSE "none"
    IN  [started |-> Prefix(IF fault.kind = "train" THEN done + 1 ELSE done),
         passes |-> Prefix(done),
         saved |-> IF fault.kind = "train" THEN 0 .. fault.cls ELSE 0 .. done - 1,
         epochs |-> done * epochs_ae,
         pairs |-> TrainedPairs(loaders, done),
         error |-> error]

\* lines 88-113: the loop over enumerate(data_loaders).
\*   started : the class indices whose training began, in order
\*   passes  : the class indices whose epochs all ran, in order
\*   saved   : the class indices whose checkpoint file was written
\*   epochs  : the epochs of the classes whose training ran through
\*   pairs   : <<class index, label of a sample it was trained on>>
\*   error   : the exception that ended the loop, "none" when it ran through
fit_classes(loaders, fault) ==
    LET n == Len(loaders)
        \* optimisers[cls] raises IndexError at cls = num_classes
        limit == IF n > num_classes THEN num_classes ELSE n
        \* class indices whose training ran to its last epoch
        done == IF fault.kind = "train" THEN fault.cls
                ELSE IF fault.kind = "save" THEN fault.cls + 1
                ELSE limit
        \* save_autoencoder follows the last epoch of a class
        written == IF fault.kind = "save" THEN 0 .. fault.cls - 1 ELSE 0 .. done - 1
        error == IF fault.kind = "train" THEN "training"
                 ELSE IF fault.kind = "save" THEN "save"
                 ELSE IF n > num_classes THEN "IndexError"
                 ELSE "none"
    IN  [started |-> Prefix(IF fault.kind = "train" THEN done + 1 ELSE done),
         passes |-> Prefix(done),
         saved |-> written,
         epochs |-> done * epochs_ae,
         pairs |-> TrainedPairs(loaders, done),
         error |-> error]

\* lines 67-81 with 85-118: one call of fit. The record appended to the log
\* says what the call was given (op, instance, ds, fold, fault), what it did
\* (uri, path, classes = number of loaders, started, passes, saved, epochs,
\* pairs, used = the instances in the loaders) and how it ended (raised,
\* fitted_before, fitted_after, ret = what explain returned).
Fit(op, instance, nm, fold, fault) ==
    LET ds == Dataset(nm, world)
        explainer_name_ == explainer_name(ds, fold)
        explainer_uri == path_join(explainer_store_path, explainer_name_)
    IN  /\ name' = explainer_name_
        /\ IF os_path_exists(explainer_uri, dirs)
           THEN LET loaded == load_explainers(explainer_name_, files)
                IN  /\ fault = NoFault
                    /\ UNCHANGED <<dirs, files>>
                    /\ fitted' = (loaded \/ fitted)
                    /\ log' = Append(log,
                           [op |-> op, instance |-> instance, ds |-> nm, fold |-> fold,
                            uri |-> explainer_uri, fit_called |-> TRUE, path |-> "load",
                            fault |-> fault, raised |-> ~loaded,
                            classes |-> 0, started |-> <<>>, passes |-> <<>>, saved |-> {}, epochs |-> 0, pairs |-> {},
                            used |-> {},
                            fitted_before |-> fitted, fitted_after |-> (loaded \/ fitted),
                            ret |-> IF op = "explain" /\ loaded THEN {instance} ELSE {}])
           ELSE \E loaders \in {transform_data(ds, fold_id)} :
                \E r \in {fit_classes(loaders, fault)} :
                LET ok == r.error = "none"
                IN  /\ FaultFits(loaders, fault)
                    /\ dirs' = dirs \cup {explainer_uri}
                    /\ files' = files \cup {checkpoint_path(explainer_name_, c) : c \in r.saved}
                    /\ fitted' = (ok \/ fitted)
                    /\ log' = Append(log,
                           [op |-> op, instance |-> instance, ds |-> nm, fold |-> fold,
                            uri |-> explainer_uri, fit_called |-> TRUE, path |-> "train",
                            fault |-> fault, raised |-> ~ok,
                            classes |-> Len(loaders), started |-> r.started,
                            passes |-> r.passes, saved |-> r.saved,
                            epochs |-> r.epochs,
                            pairs |-> r.pairs,
                            used |-> SamplesIdx(loaders),
                            fitted_before |-> fitted, fitted_after |-> (ok \/ fitted),
                            ret |-> IF op = "explain" /\ ok THEN {instance} ELSE {}])

\* a variant that ignores the flag
should_fit_always(is_fitted) == TRUE

\* line 62
should_fit(is_fitted) == ~is_fitted

\* fit(oracle, dataset, fold_id) called by the user
FitCall(nm, fold, fault) ==
    /\ Len(log) < MaxCalls
    /\ Fit("fit", -1, nm, fold, fault)
    /\ UNCHANGED <<world, fold_id, data_loaders>>
    /\ UNCHANGED sparseVars
    /\ UNCHANGED evalVars

\* lines 61-65: explain(instance, oracle, dataset)
Explain(instance, nm, fault) ==
    /\ Len(log) < MaxCalls
    /\ IF should_fit(fitted)
       THEN Fit("explain", instance, nm, fold_id, fault)
       ELSE /\ fault = NoFault
            /\ UNCHANGED <<fitted, name, dirs, files>>
            /\ log' = Append(log,
                   [op |-> "explain", instance |-> instance, ds |-> nm, fold |-> fold_id,
                    uri |-> <<>>, fit_called |-> FALSE, path |-> "none",
                    fault |-> fault, raised |-> FALSE,
                    classes |-> 0, started |-> <<>>, passes |-> <<>>, saved |-> {}, epochs |-> 0, pairs |-> {}, used |-> {},
                    fitted_before |-> fitted, fitted_after |-> fitted,
                    ret |-> {instance}])
    /\ UNCHANGED <<world, fold_id, data_loaders>>
    /\ UNCHANGED sparseVars
    /\ UNCHANGED evalVars

\* transform_data(dataset) called on its own
TransformData(nm) ==
    /\ data_loaders = {}
    /\ data_loaders' = {transform_data(Dataset(nm, world), fold_id)}
    /\ UNCHANGED <<world, fold_id, fitted, name, dirs, files, log>>
    /\ UNCHANGED sparseVars
    /\ UNCHANGED evalVars

(***************************************************************************)
(* Sparse conversion as a step.                                            *)
(***************************************************************************)
Convert ==
    /\ sp_data = {}
    /\ sp_data' = {to_sparse(sp_adj)}
    /\ UNCHANGED sp_adj
    /\ UNCHANGED explainerVars
    /\ UNCHANGED evalVars

ExplainerIdle ==
    /\ world = {} /\ fold_id = 0 /\ fitted = FALSE /\ name = <<>>
    /\ dirs = {} /\ files = {} /\ log = <<>> /\ data_loaders = {}

SparseIdle == sp_adj = <<>> /\ sp_data = {}

EvalIdle ==
    /\ dyn_graph = <<>> /\ iteration = {} /\ ev_data = {}
    /\ ev_log = <<>> /\ ev_result = None

\* the instances explain is asked about
ExplainInstances == {0, NumInst - 1}

Init ==
    /\ \E S \in (SUBSET Labels) \ {{}} :
          world = [labels |-> LabelsInTurn(S), train |-> [f \in Folds |-> KFoldTrain(f)]]
    /\ fold_id \in Folds
    /\ fitted = FALSE
    /\ name = <<>>
    /\ dirs = {}
    /\ files = {}
    /\ log = <<>>
    /\ data_loaders = {}
    /\ SparseIdle
    /\ EvalIdle

FitStep == \E nm \in Names, fold \in Folds, fault \in Faults : FitCall(nm, fold, fault)

ExplainStep ==
    \E instance \in ExplainInstances, nm \in Names, fault \in Faults :
        Explain(instance, nm, fault)

Next == FitStep \/ ExplainStep

Spec == Init /\ [][Next]_vars

InitTransform ==
    /\ \E labels \in [Indices -> Labels], f \in Folds, S \in SUBSET Indices :
          /\ fold_id = f
          /\ world = [labels |-> labels,
                      train |-> [g \in Folds |-> IF g = f THEN SeqOfSet(S) ELSE KFoldTrain(g)]]
    /\ fitted = FALSE
    /\ name = <<>>
    /\ dirs = {}
    /\ files = {}
    /\ log = <<>>
    /\ data_loaders = {}
    /\ SparseIdle
    /\ EvalIdle

NextTransform == TransformData("A")

SpecTransform == InitTransform /\ [][NextTransform]_vars

InitSparse ==
    /\ \E n \in Nodes : sp_adj \in SquareMatrices(n)
    /\ sp_data = {}
    /\ ExplainerIdle
    /\ EvalIdle

NextSparse == Convert

SpecSparse == InitSparse /\ [][NextSparse]_vars

InitEval ==
    /\ dyn_graph \in DynGraphs
    /\ iteration = {}
    /\ ev_data = {DynamicDataset}
    /\ ev_log = <<>>
    /\ ev_result = None
    /\ ExplainerIdle
    /\ SparseIdle

NextEval == EvaluateStep

SpecEval == InitEval /\ [][NextEval]_vars

(***************************************************************************)
(* Properties.                                                             *)
(***************************************************************************)
Calls == 1 .. Len(log)

\* the class indices whose checkpoint file exists in directory uri
FilesIn(uri) == {c \in 0 .. NumInst : [dir |-> uri, file |-> <<"autoencoder_", c>>] \in files}

\* C1: the second of two fit calls with the same (dataset, fold_id) takes
\* the load path and trains nothing; the training of an identity runs exactly
\* once however often fit is called for it; a fit call that returns leaves
\* the explainer marked fitted.
IdempotentFit ==
    /\ \A j \in Calls : log[j].fit_called =>
          /\ (\E i \in 1 .. j - 1 : log[i].fit_called /\ log[i].uri = log[j].uri)
                => (log[j].path = "load" /\ log[j].started = <<>> /\ log[j].epochs = 0)
          /\ Cardinality({i \in Calls : /\ log[i].fit_called
                                        /\ log[i].uri = log[j].uri
                                        /\ log[i].path = "train"}) = 1
          /\ ~log[j].raised => log[j].fitted_after
    /\ Len(log) > 0 => fitted = log[Len(log)].fitted_after

IdempotentFitWitness ==
    \E i \in Calls :
        /\ i + 1 \in Calls
        /\ log[i].op = "fit" /\ log[i + 1].op = "fit"
        /\ log[i].uri = log[i + 1].uri
        /\ log[i].path = "train" /\ ~log[i].raised /\ log[i].epochs > 0
        /\ log[i + 1].path = "load" /\ ~log[i + 1].raised
        /\ fitted

\* C2: explain calls fit exactly when the explainer is not fitted; over a
\* sequence of explain calls that return, only the first one calls fit, and
\* each returns the instance it was given.
ExplainFitsOnce ==
    /\ \A j \in Calls : log[j].op = "explain" =>
          /\ log[j].fit_called = ~log[j].fitted_before
          /\ ~log[j].raised => (log[j].ret = {log[j].instance} /\ log[j].fitted_after)
    /\ Cardinality({j \in Calls : /\ log[j].op = "explain"
                                  /\ log[j].fit_called
                                  /\ ~log[j].raised}) <= 1
    /\ (Len(log) > 0 /\ \A j \in Calls : log[j].op = "explain" /\ ~log[j].raised)
          => (log[1].fit_called /\ \A j \in Calls : j > 1 => ~log[j].fit_called)

ExplainFitsOnceWitness ==
    /\ Len(log) >= 2
    /\ \A j \in Calls : log[j].op = "explain" /\ ~log[j].raised
    /\ log[1].path = "train"
    /\ ~log[2].fit_called
    /\ log[1].instance # log[2].instance
    /\ log[2].ret = {log[2].instance}

TrainingFailureNotRolledBack ==
    \A j \in Calls : log[j].path = "train" =>
        /\ \E k \in 0 .. NumInst : log[j].started = Prefix(k)
        /\ log[j].fault.kind = "train"
              => /\ log[j].raised
                 /\ log[j].uri \in dirs
                 /\ FilesIn(log[j].uri) = 0 .. log[j].fault.cls - 1
                 /\ log[j].passes = Prefix(log[j].fault.cls)
                 /\ log[j].started = Prefix(log[j].fault.cls + 1)
                 /\ log[j].fitted_after = log[j].fitted_before
                 /\ (~log[j].fitted_before => ~log[j].fitted_after)

TrainingFailureNotRolledBackWitness ==
    \E j \in Calls :
        /\ log[j].path = "train"
        /\ log[j].fault.kind = "train"
        /\ log[j].fault.cls = 1
        /\ FilesIn(log[j].uri) = {0}
        /\ ~fitted

\* the labels the ensemble has a unit for
UnitLabels == 0 .. num_classes - 1

\* C9: a fit call that trains on an instance whose label is none of
\* 0 .. num_classes-1 fails: it does not mark the explainer fitted and trains
\* no unit on samples of a label other than its index.
ClassMismatchIsError ==
    \A j \in Calls :
        (/\ log[j].path = "train"
         /\ log[j].fault.kind = "none"
         /\ \E idx \in log[j].used : world.labels[idx] \notin UnitLabels)
        => /\ log[j].raised
           /\ log[j].fitted_after = log[j].fitted_before
           /\ \A p \in log[j].pairs : p[1] = p[2]

\* C10: the instances a training fit call builds its per-class data from are
\* the train split of the fold_id the call was given (the one in the name of
\* the checkpoint directory).
FoldConsistency ==
    \A j \in Calls : log[j].path = "train" =>
        log[j].used = Range(get_split_indices(Dataset(log[j].ds, world), log[j].fold))

\* C5: every instance of the train split of the fold is in exactly one
\* collection, the one of its label, and no other instance is in any.
ClassPartitionComplete ==
    \A loaders \in data_loaders :
        LET ds == Dataset("A", world)
            classes == get_classes(ds)
            train == Range(get_split_indices(ds, fold_id))
            Occ(idx) == {o \in (1 .. Len(loaders)) \X (1 .. NumInst) :
                            o[2] <= Len(loaders[o[1]]) /\ loaders[o[1]][o[2]].idx = idx}
        IN  /\ Len(loaders) = Len(classes)
            /\ \A idx \in Indices :
                  IF idx \in train
                  THEN /\ Cardinality(Occ(idx)) = 1
                       /\ \A o \in Occ(idx) : classes[o[1]] = ds.instances[idx].graph_label
                  ELSE Occ(idx) = {}

ClassPartitionCompleteWitness ==
    \E loaders \in data_loaders :
        /\ Cardinality(Range(get_split_indices(Dataset("A", world), fold_id))) = NumInst - 1
        /\ Cardinality({k \in 1 .. Len(loaders) : loaders[k] # <<>>}) >= 2

\* C6: the edge_index / edge_attr pair of a matrix with k non-zero entries has
\* k columns, one per non-zero entry with the entry's value, and writing the
\* values back into a zero matrix gives the matrix again.
SparseRoundTrip ==
    \A sp \in sp_data :
        LET k == NonZeroCount(sp_adj)
            col(i) == <<sp.edge_index[1][i], sp.edge_index[2][i]>>
        IN  /\ Len(sp.edge_index) = 2
            /\ Len(sp.edge_index[1]) = k
            /\ Len(sp.edge_index[2]) = k
            /\ Len(sp.edge_attr) = k
            /\ \A i \in 1 .. k :
                  /\ sp.edge_attr[i] # 0
                  /\ sp.edge_attr[i] = sp_adj[col(i)[1] + 1][col(i)[2] + 1]
            /\ \A i, j \in 1 .. k : i # j => col(i) # col(j)
            /\ ToDense(Len(sp_adj), sp) = sp_adj

SparseRoundTripWitness ==
    \E sp \in sp_data :
        /\ Len(sp_adj) = MaxNodes
        /\ NonZeroCount(sp_adj) >= 2
        /\ NonZeroCount(sp_adj) < MaxNodes * MaxNodes
        /\ sp_adj[1][1] # 0
        /\ \E i \in 1 .. Len(sp.edge_attr) : sp.edge_attr[i] < 0

\* C3: at every invocation of the inherited evaluate() the iteration counter
\* is 0 and the active dataset is the snapshot at the minimum time key.
EvaluatorStartsAtMinimum ==
    \A i \in 1 .. Len(ev_log) :
        /\ ev_log[i].iteration = 0
        /\ ev_log[i].data = Snapshot(Min(Range(keys(dyn_graph))))

\* C4: a call of evaluate() on a dynamic graph with at least one key invokes
\* the inherited evaluate() once, for the first key of the mapping, and no
\* other snapshot is bound to the evaluator.
SingleSnapshotOnly ==
    /\ (ev_result # None /\ dyn_graph # <<>>) =>
          /\ Len(ev_log) = 1
          /\ ev_log[1].data = getitem(dyn_graph, keys(dyn_graph)[1])
          /\ ev_data = {ev_log[1].data}
          /\ iteration = {ev_log[1].iteration}
    /\ ev_result = None => (ev_log = <<>> /\ iteration = {} /\ ev_data = {DynamicDataset})

SingleSnapshotOnlyWitness ==
    /\ ev_result = "ok"
    /\ Len(dyn_graph) >= 3
    /\ keys(dyn_graph)[1] = 5 /\ keys(dyn_graph)[2] = 8 /\ keys(dyn_graph)[3] = 13
    /\ ev_data = {Snapshot(5)}

====
